---- MODULE Spec2Model ----
(***************************************************************************)
(* ontario-environmental-data, four state machines over one set of         *)
(* variables:                                                              *)
(*   Spec   BaseClient of ontario_data.sources.base: the per-client rate   *)
(*          limiter (_rate_limit_wait), the retrying requester             *)
(*          (_retry_request) and one concrete source client call           *)
(*          (OntarioGeoHubClient.get_provincial_parks), driven by one task *)
(*          over a discrete wall clock counted in seconds;                 *)
(*   SpecC  two tasks awaiting _rate_limit_wait on the same client;        *)
(*   SpecV  ontario_data.validation: validate_data_file on one file and    *)
(*          validate_collection_results on one report;                     *)
(*   SpecS  check_data_status.py: the status check over DATA_FILES and     *)
(*          its exit-code decision.                                        *)
(***************************************************************************)
EXTENDS Integers, Sequences, FiniteSets, TLC

\* ------------------------------------------------------------------ bounds
MaxTime == 66
MaxIdle == 2
MaxCalls == 3
MaxLatency == 1
MaxOvershoot == 1
MaxRetriesBound == 3
MaxRetryAfterHdr == 2
MaxFeatures == 20
MaxInvalid == 3
MaxRecords == 11
MaxBad == 1
MaxFeatLen == 2
MaxMinRecords == 7
MaxValidations == 2
MaxSharedTime == 6
MaxSources == 2
MaxDatasets == 3

\* ------------------------------------------------------- program constants
DefaultRetryAfter == 60
DefaultMaxRetries == 3
DefaultBaseDelay == 1
MinSizeBytes == 100
SampleSize == 10

\* constructor arguments the model draws from (requests per minute, seconds)
RateLimits == {20, 30, 60}
BaseDelays == {1, 2}

\* HTTP statuses an endpoint answers with
Statuses == {200, 201, 204, 404, 429, 500, 503}

\* the Retry-After header of a response: absent, an integer number of
\* seconds, or text that int() does not parse (an HTTP-date)
NoHeader == [kind |-> "absent", secs |-> 0]
Headers == {NoHeader, [kind |-> "text", secs |-> 0]}
             \cup {[kind |-> "int", secs |-> s] : s \in 0..MaxRetryAfterHdr}

\* what one attempt can come back with: a response with a status, an
\* aiohttp.ClientError (connection refused, DNS failure, ...), or an
\* asyncio.TimeoutError (the session's total timeout), which is no ClientError
Kinds == {"status", "client_error", "timeout"}

VARIABLES
    now,            \* wall clock, datetime.now(), counted from the latest epoch
    rate_limit,     \* self.rate_limit
    max_retries,    \* self.max_retries
    base_delay,     \* self.base_delay
    last_request,   \* self.last_request
    op,             \* the method the task is running
    pc,             \* the task's position in it
    attempt,        \* loop variable of _retry_request
    wake,           \* earliest time the pending asyncio.sleep may return
    result,         \* how the last call ended
    fresh,          \* no _rate_limit_wait has completed since construction
    ncalls,         \* calls the task has made on the client
    gap,            \* time between the two latest returns of _rate_limit_wait,
                    \* each the instant its caller issues its request; -1 if < 2
    nreq,           \* HTTP requests issued by the running call
    nset,           \* assignments to self.last_request made by the running call
    nresp,          \* attempts of the running call that have come back
    respAt,         \* time the latest attempt came back, -1 once the next is issued
    sinceResp,      \* at a request: time since the previous attempt came back
    lastKind,       \* what the latest attempt of the call came back with
    lastStatus,     \* its status (0 when it has none)
    lastHeader,     \* its Retry-After header
    sleepDur,       \* seconds asked of the latest retry sleep, -1 if none
    n429,           \* attempts of the call so far answered 429
    nfail,          \* attempts of the call so far failed by 5xx or ClientError
    only503,        \* every attempt of the call so far was answered 503
    interrupted,    \* an interrupt was delivered to the running call
    \* -- the validator (ontario_data.validation) and its caller
    file,           \* the file on disk at file_path
    data_type,      \* argument data_type
    min_records,    \* argument min_records
    required_fields,\* argument required_fields
    success,        \* first component of the latest returned triple
    errors,         \* second component
    warnings,       \* third component
    raised,         \* exception that escaped the latest call, "none" if it returned
    prev,           \* what the call before the latest came back with
    vcalls,         \* validation calls made so far
    results,        \* argument results of validate_collection_results
    \* -- two tasks sharing one client
    tpc,            \* each task's position in _rate_limit_wait
    twake,          \* each task's earliest wake-up time while it sleeps
    issuedAt,       \* when each task's latest _rate_limit_wait returned, -1 if never
    \* -- the status check (check_data_status.py)
    datasets,       \* DATA_FILES in the order the loops visit them, with the files on disk
    dsi,            \* datasets visited so far
    status,         \* the status dict being filled
    exit_code,      \* the process's exit code, -1 while it runs
    banner          \* the verdict printed before exit

vars == <<now, rate_limit, max_retries, base_delay, last_request, op, pc,
          attempt, wake, result, fresh, ncalls, gap, nreq, nset, nresp, respAt,
          sinceResp, lastKind,
          lastStatus, lastHeader, sleepDur, n429, nfail, only503, interrupted,
          file, data_type, min_records, required_fields, success, errors,
          warnings, raised, prev, vcalls, results,
          tpc, twake, issuedAt, datasets, dsi, status, exit_code, banner>>

\* the validator's inputs and outputs
vargs == <<file, data_type, min_records, required_fields>>
vstate == <<vargs, success, errors, warnings, raised, prev, vcalls, results>>
\* the two concurrent tasks
tstate == <<tpc, twake, issuedAt>>
\* the status check
sstate == <<datasets, dsi, status, exit_code, banner>>
\* what a single task driving the client leaves alone
elsewhere == <<vstate, tstate, sstate>>

config == <<rate_limit, max_retries, base_delay>>
callLog == <<lastKind, lastStatus, lastHeader, n429, nfail, only503, nresp>>

\* ----------------------------------------------------------- pure helpers
RECURSIVE Pow2(_)
Pow2(n) == IF n <= 0 THEN 1 ELSE 2 * Pow2(n - 1)

\* min_interval = 60.0 / self.rate_limit
min_interval == 60 \div rate_limit

\* wait_time = min_interval - time_since_last
wait_time_skew(since) == min_interval - since - 1
wait_time(since) == min_interval - since

\* asyncio.sleep(d) returns at once for d <= 0
SleepSecs(d) == IF d <= 0 THEN 0 ELSE d

\* delay = self.base_delay * (2**attempt)
backoff_delay_linear(a) == base_delay * (a + 1)
backoff_delay_shift(a) == base_delay * Pow2(a + 1)
backoff_delay(a) == base_delay * Pow2(a)

\* range(self.max_retries) has another value after a
loop_continues_short(a) == a + 1 < max_retries - 1
loop_continues(a) == a + 1 < max_retries

\* where iteration a of the for loop starts: the first statement of its body
\* is "await self._rate_limit_wait()"
attempt_start_first_only(a) == IF a = 0 THEN "rate_limit_wait" ELSE "request"
attempt_start(a) == "rate_limit_wait"

\* the branch of the status chain taken for a response
status_branch_retry4xx(s) ==
    IF s = 200 THEN "return"
    ELSE IF s = 429 THEN "rate_limited"
    ELSE IF s >= 400 THEN "server_error"
    ELSE "raise"
status_branch(s) ==
    IF s = 200 THEN "return"
    ELSE IF s = 429 THEN "rate_limited"
    ELSE IF s >= 500 THEN "server_error"
    ELSE "raise"

\* int(response.headers.get("Retry-After", 60))
retry_after_zero(h) == IF h.kind = "absent" THEN 0 ELSE h.secs
retry_after(h) == IF h.kind = "absent" THEN DefaultRetryAfter ELSE h.secs

\* ------------------------------------------------------------------- Init
\* no file is being validated while the client runs
NoFields == [given |-> FALSE, names |-> {}]
\* A file as the validator sees it: whether it exists, its size in bytes,
\* whether its content parses in the format asked for, and what it holds:
\*   n        features (geojson), rows (csv), length of the bare list or of the
\*            "observations" value (json)
\*   k        features whose geometry is None, empty or invalid (geojson)
\*   crs      "none", "EPSG:4326" or another CRS (geojson)
\*   columns  property names / column headers / keys of a single-object dict
\*   top      json: "list", "dict" or "scalar" (number, string, null)
\*   obs      json dict: what "observations" holds: "absent", "list", "null", "string"
\*   feat, m  json dict: what "features" holds, and its length
\*   bad      0-based indexes of the records of shape badShape in the list the
\*            validator looks at; the other records have every field
NoFile == [exists |-> FALSE, size |-> 0, parses |-> FALSE, top |-> "none",
           n |-> 0, k |-> 0, m |-> 0, crs |-> "none", columns |-> {},
           obs |-> "absent", feat |-> "absent", bad |-> {}, badShape |-> "partial"]
\* no collection report is being validated
NoResults == [has_sources |-> FALSE, sources |-> <<>>, given |-> FALSE]
NoOutcome == [raised |-> "none", success |-> FALSE, errors |-> <<>>, warnings |-> <<>>]
ValidatorIdle ==
    /\ file = NoFile
    /\ data_type = "none"
    /\ min_records = 1
    /\ required_fields = NoFields
    /\ success = FALSE
    /\ errors = <<>>
    /\ warnings = <<>>
    /\ raised = "none"
    /\ prev = NoOutcome
    /\ vcalls = 0
    /\ results = NoResults

\* no second task shares the client
Tasks == {"t1", "t2"}
TasksIdle ==
    /\ tpc = [t \in Tasks |-> "idle"]
    /\ twake = [t \in Tasks |-> 0]
    /\ issuedAt = [t \in Tasks |-> -1]

\* no status check is running
NoStatus == [available |-> <<>>, missing |-> <<>>,
             validation_errors |-> <<>>, validation_warnings |-> <<>>]
StatusIdle ==
    /\ datasets = <<>>
    /\ dsi = 0
    /\ status = NoStatus
    /\ exit_code = -1
    /\ banner = "none"

Init ==
    /\ ValidatorIdle
    /\ TasksIdle
    /\ StatusIdle
    /\ interrupted = FALSE
    /\ now = 0
    /\ rate_limit \in RateLimits
    /\ max_retries \in 1..MaxRetriesBound
    /\ base_delay \in BaseDelays
    /\ last_request = now
    /\ op = "none"
    /\ pc = "idle"
    /\ attempt = 0
    /\ wake = 0
    /\ result = "none"
    /\ fresh = TRUE
    /\ ncalls = 0
    /\ gap = -1
    /\ sinceResp = -1
    /\ nreq = 0
    /\ nset = 0
    /\ nresp = 0
    /\ respAt = -1
    /\ lastKind = "none"
    /\ lastStatus = 0
    /\ lastHeader = NoHeader
    /\ sleepDur = -1
    /\ n429 = 0
    /\ nfail = 0
    /\ only503 = TRUE

NotInCall == pc \in {"idle", "done"}

\* a call starts with a clean per-call log
ResetCallLog ==
    /\ ncalls < MaxCalls
    /\ ncalls' = ncalls + 1
    /\ interrupted' = FALSE
    /\ nreq' = 0
    /\ nset' = 0
    /\ nresp' = 0
    /\ sinceResp' = -1
    /\ respAt' = -1
    /\ lastKind' = "none"
    /\ lastStatus' = 0
    /\ lastHeader' = NoHeader
    /\ sleepDur' = -1
    /\ n429' = 0
    /\ nfail' = 0
    /\ only503' = TRUE

\* time passing while the task is between calls
Pass ==
    /\ NotInCall
    /\ now - last_request < min_interval
    /\ \E d \in 1..MaxIdle :
        /\ now + d <= MaxTime
        /\ now' = now + d
    /\ UNCHANGED <<elsewhere, interrupted, config, last_request, op, pc, attempt, wake, result, fresh,
                   ncalls, gap, nset, nreq, respAt, sinceResp, sleepDur, callLog>>

\* the task calls _rate_limit_wait directly
Call_rate_limit_wait ==
    /\ NotInCall
    /\ op' = "rate_limit_wait"
    /\ pc' = "rate_limit_wait"
    /\ result' = "none"
    /\ attempt' = 0
    /\ ResetCallLog
    /\ UNCHANGED <<elsewhere, now, config, last_request, wake, fresh, gap>>

\* the task calls _retry_request: the for loop is entered with attempt = 0
Call_retry_request ==
    /\ NotInCall
    /\ op' = "retry_request"
    /\ pc' = attempt_start(0)
    /\ result' = "none"
    /\ attempt' = 0
    /\ ResetCallLog
    /\ UNCHANGED <<elsewhere, now, config, last_request, wake, fresh, gap>>

\* the task calls OntarioGeoHubClient.get_provincial_parks; the constructor
\* of that client passes rate_limit only, the rest keep their defaults
Call_get_provincial_parks ==
    /\ NotInCall
    /\ max_retries = DefaultMaxRetries
    /\ base_delay = DefaultBaseDelay
    /\ op' = "get_provincial_parks"
    /\ pc' = "rate_limit_wait"
    /\ result' = "none"
    /\ attempt' = 0
    /\ ResetCallLog
    /\ UNCHANGED <<elsewhere, now, config, last_request, wake, fresh, gap>>

\* The program only ever subtracts two datetimes, so the clock has no
\* preferred origin: the model moves the origin to every new last_request and
\* keeps each timestamp t as its distance from that epoch.
Rebase(epoch, t) == t - epoch

\* _rate_limit_wait has set last_request at time t and returns: a direct
\* call is over, the other two methods issue their HTTP request
AfterRateLimit(t) ==
    /\ last_request' = Rebase(t, t)
    /\ now' = Rebase(t, t)
    /\ fresh' = FALSE
    /\ gap' = IF fresh THEN -1 ELSE t - last_request
    /\ nset' = nset + 1
    /\ wake' = 0
    /\ IF op = "rate_limit_wait"
       THEN /\ pc' = "done"
            /\ result' = "returned"
            /\ UNCHANGED <<nreq, respAt, sinceResp>>
       ELSE /\ pc' = "request"
            /\ result' = result
            /\ nreq' = nreq + 1
            /\ respAt' = -1
            /\ sinceResp' = IF respAt = -1 THEN -1 ELSE t - respAt

\* _rate_limit_wait up to its await: either no wait is due and the method
\* runs to its end, or the task suspends in asyncio.sleep(wait_time)
RateLimitCheck ==
    /\ pc = "rate_limit_wait"
    /\ LET time_since_last == now - last_request IN
       IF time_since_last < min_interval
       THEN /\ pc' = "rate_sleep"
            /\ wake' = now + SleepSecs(wait_time(time_since_last))
            /\ UNCHANGED <<now, last_request, result, fresh, gap, nset, nreq,
                           respAt, sinceResp>>
       ELSE AfterRateLimit(now)
    /\ UNCHANGED <<elsewhere, interrupted, config, op, attempt, ncalls, sleepDur, callLog>>

\* asyncio.sleep(wait_time) returns, no earlier than asked
RateLimitWake ==
    /\ pc = "rate_sleep"
    /\ \E over \in 0..MaxOvershoot :
        /\ wake + over <= MaxTime
        /\ AfterRateLimit(wake + over)
    /\ UNCHANGED <<elsewhere, interrupted, config, op, attempt, ncalls, sleepDur, callLog>>

\* attempt == self.max_retries - 1
last_attempt(a) == a = max_retries - 1

\* the attempt came back: what the call's log records of it
LogAttempt(kind, s, h) ==
    /\ nresp' = nresp + 1
    /\ lastKind' = kind
    /\ lastStatus' = s
    /\ lastHeader' = h
    /\ only503' = (only503 /\ kind = "status" /\ s = 503)

\* the call ends with outcome r
Finish(r) ==
    /\ pc' = "done"
    /\ result' = r
    /\ respAt' = -1
    /\ UNCHANGED <<wake, sleepDur>>

\* the task suspends in asyncio.sleep(d) at time t, in state p
Suspend(p, t, d) ==
    /\ pc' = p
    /\ sleepDur' = d
    /\ wake' = t + SleepSecs(d)
    /\ respAt' = t
    /\ result' = result

\* one attempt of _retry_request comes back, after some latency: the body of
\* "async with session.request(...)" and the except clause, up to the next
\* await or to the end of the call
RetryResponse ==
    /\ op = "retry_request"
    /\ pc = "request"
    /\ \E lat \in 0..MaxLatency, kind \in Kinds :
       \E s \in IF kind = "status" THEN Statuses ELSE {0} :
       \E h \in IF s = 429 THEN Headers ELSE {NoHeader} :
        /\ now + lat <= MaxTime
        /\ now' = now + lat
        /\ LogAttempt(kind, s, h)
        /\ CASE kind = "status" /\ status_branch(s) = "return" ->
                  Finish("returned")
             [] kind = "status" /\ status_branch(s) = "rate_limited" ->
                  IF h.kind = "text"
                  THEN Finish("ValueError")
                  ELSE Suspend("retry_after_sleep", now + lat, retry_after(h))
             [] kind = "status" /\ status_branch(s) = "server_error" ->
                  Suspend("backoff_sleep", now + lat, backoff_delay(attempt))
             [] kind = "status" /\ status_branch(s) = "raise" ->
                  Finish("DataSourceError")
             [] kind = "client_error" ->
                  IF last_attempt(attempt)
                  THEN Finish("DataSourceError")
                  ELSE Suspend("backoff_sleep", now + lat, backoff_delay(attempt))
             [] kind = "timeout" ->
                  Finish("TimeoutError")
    /\ UNCHANGED <<elsewhere, interrupted, config, last_request, op, attempt, fresh, ncalls, gap, nset,
                   nreq, sinceResp, n429, nfail>>

\* the sleep after a 429 (continue) or after a 5xx / ClientError returns, no
\* earlier than asked; the loop moves to its next value, or is exhausted and
\* the final raise is reached
SleepWake ==
    /\ op = "retry_request"
    /\ pc \in {"retry_after_sleep", "backoff_sleep"}
    /\ \E over \in 0..MaxOvershoot :
        /\ wake + over <= MaxTime
        /\ now' = wake + over
    /\ n429' = IF pc = "retry_after_sleep" THEN n429 + 1 ELSE n429
    /\ nfail' = IF pc = "backoff_sleep" THEN nfail + 1 ELSE nfail
    /\ attempt' = attempt + 1
    /\ IF loop_continues(attempt)
       THEN /\ pc' = attempt_start(attempt + 1)
            /\ result' = result
            /\ respAt' = respAt
       ELSE /\ pc' = "done"
            /\ result' = "DataSourceError"
            /\ respAt' = -1
    /\ wake' = 0
    /\ sleepDur' = -1
    /\ UNCHANGED <<elsewhere, interrupted, config, last_request, op, fresh, ncalls, gap, nset, nreq, sinceResp,
                   lastKind, lastStatus, lastHeader, only503, nresp>>

\* the single session.get of get_provincial_parks comes back: 200 is parsed
\* and returned, every other status and every exception ends the call with
\* DataSourceError (raised in the try, or by "except Exception")
ParksResponse ==
    /\ op = "get_provincial_parks"
    /\ pc = "request"
    /\ \E lat \in 0..MaxLatency, kind \in Kinds :
       \E s \in IF kind = "status" THEN Statuses ELSE {0} :
        /\ now + lat <= MaxTime
        /\ now' = now + lat
        /\ LogAttempt(kind, s, NoHeader)
        /\ IF kind = "status" /\ s = 200
           THEN Finish("returned")
           ELSE Finish("DataSourceError")
    /\ UNCHANGED <<elsewhere, interrupted, config, last_request, op, attempt, fresh, ncalls, gap, nset,
                   nreq, sinceResp, n429, nfail>>

\* the exceptions "except aiohttp.ClientError" catches
except_catches_all(e) == TRUE
except_catches(e) == e = "client_error"

\* a KeyboardInterrupt, or the cancellation of the task, is raised at the
\* await the call is suspended in: the rate-limit sleep, the request, the
\* Retry-After sleep or the backoff sleep, all inside the try
Interrupt ==
    /\ op = "retry_request"
    /\ pc \in {"rate_sleep", "request", "retry_after_sleep", "backoff_sleep"}
    /\ interrupted' = TRUE
    /\ \E e \in {"KeyboardInterrupt", "CancelledError"} :
        IF except_catches(e)
        THEN IF last_attempt(attempt)
             THEN /\ pc' = "done"
                  /\ result' = "DataSourceError"
                  /\ wake' = 0
                  /\ sleepDur' = -1
                  /\ respAt' = -1
             ELSE Suspend("backoff_sleep", now, backoff_delay(attempt))
        ELSE /\ pc' = "done"
             /\ result' = e
             /\ wake' = 0
             /\ sleepDur' = -1
             /\ respAt' = -1
    /\ UNCHANGED <<elsewhere, now, config, last_request, op, attempt, fresh, ncalls,
                   gap, nset, nreq, sinceResp, callLog>>

Next ==
    \/ Interrupt
    \/ Pass
    \/ Call_rate_limit_wait
    \/ Call_retry_request
    \/ Call_get_provincial_parks
    \/ RateLimitCheck
    \/ RateLimitWake
    \/ RetryResponse
    \/ SleepWake
    \/ ParksResponse

Spec == Init /\ [][Next]_vars

\* ===================================================== two tasks, one client
\* Two coroutines of one event loop await _rate_limit_wait on the same
\* BaseClient. A coroutine runs without interruption from one await to the
\* next, so _rate_limit_wait is two steps: up to asyncio.sleep, and after it.

\* the client's variables that _rate_limit_wait neither reads nor writes
cother == <<max_retries, base_delay, op, pc, attempt, wake, result, fresh, ncalls,
            gap, nset, nreq, respAt, sinceResp, sleepDur, callLog, interrupted>>

\* self.last_request = datetime.now(), and the method returns to task t
set_last_request(t) ==
    /\ last_request' = now
    /\ issuedAt' = [issuedAt EXCEPT ![t] = now]
    /\ tpc' = [tpc EXCEPT ![t] = "done"]

\* task t calls _rate_limit_wait: it reads the clock and last_request, and
\* either suspends in asyncio.sleep(wait_time) or runs to the end
TaskEnter(t) ==
    /\ tpc[t] \in {"idle", "done"}
    /\ LET time_since_last == now - last_request IN
       IF time_since_last < min_interval
       THEN /\ tpc' = [tpc EXCEPT ![t] = "sleep"]
            /\ twake' = [twake EXCEPT ![t] = now + SleepSecs(wait_time(time_since_last))]
            /\ UNCHANGED <<last_request, issuedAt>>
       ELSE /\ set_last_request(t)
            /\ UNCHANGED twake
    /\ UNCHANGED <<now, rate_limit, cother, vstate, sstate>>

\* task t's asyncio.sleep returns, no earlier than asked, and the method
\* finishes without looking at last_request again
TaskWake(t) ==
    /\ tpc[t] = "sleep"
    /\ now >= twake[t]
    /\ set_last_request(t)
    /\ twake' = [twake EXCEPT ![t] = 0]
    /\ UNCHANGED <<now, rate_limit, cother, vstate, sstate>>

\* a second passes; a sleeping task is resumed at most MaxOvershoot late
Tick ==
    /\ now < MaxSharedTime
    /\ \A t \in Tasks : tpc[t] = "sleep" => now < twake[t] + MaxOvershoot
    /\ now' = now + 1
    /\ UNCHANGED <<rate_limit, last_request, cother, tstate, vstate, sstate>>

NextC ==
    \/ \E t \in Tasks : TaskEnter(t)
    \/ \E t \in Tasks : TaskWake(t)
    \/ Tick

SpecC == Init /\ [][NextC]_vars

\* ============================================================== validator
\* ontario_data.validation: validate_data_file and the checks it calls

\* property / column / field names of the files and of required_fields
Fields == {"first_nation", "reserve_name"}
\* keys of a record that lacks a field
PartialKeys == {"first_nation"}
Shapes == {"partial", "nonobject"}
CRSs == {"none", "EPSG:4326", "EPSG:3347"}
DataTypes == {"geojson", "json", "csv", "shapefile"}

\* required_fields: None, or a list of names (the empty list included)
Requireds == {NoFields} \cup {[given |-> TRUE, names |-> s] : s \in SUBSET Fields}

Min(a, b) == IF a < b THEN a ELSE b

\* an existing file of MinSizeBytes bytes or more
Present == [NoFile EXCEPT !.exists = TRUE, !.size = MinSizeBytes]
SmallFile == [NoFile EXCEPT !.exists = TRUE, !.size = MinSizeBytes - 1]
\* a file below the size threshold whose content is well formed: one record
SmallValid == [SmallFile EXCEPT !.parses = TRUE, !.top = "list", !.n = 1,
                                !.crs = "EPSG:4326"]
EmptyFile == [NoFile EXCEPT !.exists = TRUE]
Parsed == [Present EXCEPT !.parses = TRUE]

BadSets(n) == {b \in SUBSET (0..(n - 1)) : Cardinality(b) <= MaxBad}
RecordLists(maxlen) ==
    UNION {{[len |-> n, bad |-> b, badShape |-> sh] :
                b \in BadSets(n), sh \in Shapes} : n \in 0..maxlen}

GeoJsonFiles ==
    {NoFile, SmallFile, SmallValid, EmptyFile, Present} \cup
    UNION {{[Parsed EXCEPT !.n = n, !.k = k, !.crs = c, !.columns = cols] :
                k \in 0..Min(n, MaxInvalid), c \in CRSs, cols \in SUBSET Fields} :
           n \in 0..MaxFeatures}

CsvFiles ==
    {NoFile, SmallFile, SmallValid, EmptyFile, Present} \cup
    {[Parsed EXCEPT !.n = n, !.columns = cols] :
        n \in 0..(MaxMinRecords + 1), cols \in SUBSET Fields}

JsonFiles ==
    {NoFile, SmallFile, SmallValid, EmptyFile, Present, [Parsed EXCEPT !.top = "scalar"]} \cup
    {[Parsed EXCEPT !.top = "list", !.n = l.len, !.bad = l.bad,
                    !.badShape = l.badShape] : l \in RecordLists(MaxRecords)} \cup
    {[Parsed EXCEPT !.top = "dict", !.obs = "list", !.n = l.len, !.bad = l.bad,
                    !.badShape = l.badShape, !.feat = "list", !.m = m] :
        l \in RecordLists(MaxRecords), m \in 0..MaxFeatLen} \cup
    {[Parsed EXCEPT !.top = "dict", !.obs = "list", !.n = l.len, !.bad = l.bad,
                    !.badShape = l.badShape, !.feat = ft] :
        l \in RecordLists(MaxRecords), ft \in {"absent", "null"}} \cup
    {[Parsed EXCEPT !.top = "dict", !.obs = ob, !.n = n, !.feat = "list", !.m = m] :
        ob \in {"null", "string"}, n \in 0..MaxFeatLen, m \in 0..MaxFeatLen} \cup
    {[Parsed EXCEPT !.top = "dict", !.obs = ob, !.n = n] :
        ob \in {"null", "string"}, n \in 0..MaxFeatLen} \cup
    {[Parsed EXCEPT !.top = "dict", !.feat = "list", !.m = l.len, !.bad = l.bad,
                    !.badShape = l.badShape] : l \in RecordLists(MaxFeatLen)} \cup
    {[Parsed EXCEPT !.top = "dict", !.feat = "null"]} \cup
    {[Parsed EXCEPT !.top = "dict", !.columns = cols] : cols \in SUBSET Fields}

FilesOf(dt) ==
    CASE dt = "geojson" -> GeoJsonFiles
      [] dt = "json" -> JsonFiles
      [] dt = "csv" -> CsvFiles
      [] OTHER -> {NoFile, Present}

\* an error or warning string, by its kind and the values it states
Msg(kind, a, b, names) == [kind |-> kind, a |-> a, b |-> b, names |-> names]

\* what a check comes back with: exc = "none" and its warnings, or the
\* exception it raised (err is the text of a ValidationError)
Ok(w) == [exc |-> "none", err |-> Msg("none", 0, 0, {}), warnings |-> w]
Raise(exc, err) == [exc |-> exc, err |-> err, warnings |-> <<>>]
Invalid(err) == Raise("ValidationError", err)

\* validate_file_exists
size_too_small_lenient(size) == FALSE
size_too_small(size) == size < MinSizeBytes
validate_file_exists(f) ==
    IF ~f.exists THEN Invalid(Msg("missing", 0, 0, {}))
    ELSE IF size_too_small(f.size)
         THEN Invalid(Msg("too_small", f.size, MinSizeBytes, {}))
         ELSE Ok(<<>>)

\* if required: None and the empty list skip the field check
truthy(req) == req.given /\ req.names # {}

\* len(gdf) < min_features
geo_too_few_inclusive(n, min) == n <= min
geo_too_few(n, min) == n < min

\* set(required_properties) - set(gdf.columns); the GeoDataFrame's columns
\* are the property names and the geometry column
missing_props_none(req, cols) == {}
missing_props(req, cols) == req.names \ (cols \cup {"geometry"})

\* len(invalid_geoms) > len(gdf) * 0.1: for integers k and n the float
\* product n * 0.1 is never below n / 10 and exceeds it by less than 1 / 10,
\* so the comparison is that of 10 * k with n
too_many_invalid_inclusive(k, n) == 10 * k >= n
too_many_invalid(k, n) == 10 * k > n

\* the CRS check
crs_warnings(f) ==
    IF f.crs = "none" THEN <<Msg("no_crs", 0, 0, {})>>
    ELSE IF f.crs # "EPSG:4326" THEN <<Msg("crs_mismatch", 0, 0, {})>>
    ELSE <<>>

\* validate_geojson_file(file_path, min_features, required_properties)
validate_geojson_file(f, min, req) ==
    LET pre == validate_file_exists(f) IN
    IF pre.exc # "none" THEN pre
    ELSE IF ~f.parses THEN Invalid(Msg("read_failed", 0, 0, {}))
    ELSE IF geo_too_few(f.n, min)
         THEN Invalid(Msg("too_few_features", f.n, min, {}))
    ELSE IF truthy(req) /\ missing_props(req, f.columns) # {}
         THEN Invalid(Msg("missing_properties", 0, 0, missing_props(req, f.columns)))
    ELSE IF f.k > 0 /\ too_many_invalid(f.k, f.n)
         THEN Invalid(Msg("too_many_invalid", f.k, f.n, {}))
    ELSE Ok(crs_warnings(f) \o
            (IF f.k > 0 THEN <<Msg("some_invalid", f.k, f.n, {})>> ELSE <<>>))

\* validate_json_file(file_path): the pre-check and json.load
validate_json_file(f) ==
    LET pre == validate_file_exists(f) IN
    IF pre.exc # "none" THEN pre
    ELSE IF ~f.parses THEN Invalid(Msg("invalid_json", 0, 0, {}))
    ELSE Ok(<<>>)

\* the value validate_json_observations takes as the observations: what kind
\* of value it is, its length, and whether it is the one-element list [data]
observations_features_first(f) ==
    IF f.top = "dict"
    THEN IF f.feat # "absent" THEN [kind |-> f.feat, len |-> f.m, self |-> FALSE]
         ELSE IF f.obs # "absent" THEN [kind |-> f.obs, len |-> f.n, self |-> FALSE]
         ELSE [kind |-> "list", len |-> 1, self |-> TRUE]
    ELSE [kind |-> "list", len |-> f.n, self |-> FALSE]
observations_of(f) ==
    IF f.top = "dict"
    THEN IF f.obs # "absent" THEN [kind |-> f.obs, len |-> f.n, self |-> FALSE]
         ELSE IF f.feat # "absent" THEN [kind |-> f.feat, len |-> f.m, self |-> FALSE]
         ELSE [kind |-> "list", len |-> 1, self |-> TRUE]
    ELSE [kind |-> "list", len |-> f.n, self |-> FALSE]

\* element idx of the observations: an object with every field, an object
\* with PartialKeys only, the top-level dict itself, or no object at all (the
\* characters of a string, a number in a list)
record_shape(f, obs, idx) ==
    IF obs.self THEN "self"
    ELSE IF obs.kind = "string" THEN "nonobject"
    ELSE IF idx \in f.bad THEN f.badShape
    ELSE "full"
record_keys(f, obs, idx) ==
    CASE record_shape(f, obs, idx) = "self" -> f.columns
      [] record_shape(f, obs, idx) = "partial" -> PartialKeys
      [] OTHER -> Fields

\* observations[:10]
sample_limit_all(len) == len
sample_limit(len) == Min(len, SampleSize)

\* the warnings of the required-fields loop over indexes idx .. limit - 1
RECURSIVE sample_warnings(_, _, _, _, _)
sample_warnings(f, obs, req, idx, limit) ==
    IF idx >= limit THEN <<>>
    ELSE LET missing_fields == req.names \ record_keys(f, obs, idx) IN
         (IF missing_fields # {}
          THEN <<Msg("observation_missing_fields", idx, 0, missing_fields)>>
          ELSE <<>>) \o sample_warnings(f, obs, req, idx + 1, limit)

\* validate_json_observations(file_path, min_observations, required_fields)
validate_json_observations(f, min, req) ==
    LET data == validate_json_file(f)
        obs == observations_of(f)
        limit == sample_limit(obs.len)
    IN
    IF data.exc # "none" THEN data
    ELSE IF f.top \notin {"dict", "list"}
         THEN Invalid(Msg("not_list_or_dict", 0, 0, {}))
    ELSE IF obs.kind = "null"
         THEN Raise("TypeError", Msg("none", 0, 0, {}))
    ELSE IF obs.len < min
         THEN Invalid(Msg("too_few_observations", obs.len, min, {}))
    ELSE IF truthy(req)
            /\ \E idx \in 0..(limit - 1) : record_shape(f, obs, idx) = "nonobject"
         THEN Raise("AttributeError", Msg("none", 0, 0, {}))
    ELSE IF truthy(req)
         THEN Ok(sample_warnings(f, obs, req, 0, limit))
    ELSE Ok(<<>>)

\* the csv branch of validate_data_file after the pre-check: the errors it
\* appends to errs
csv_checks_first_only(f, min, req, errs) ==
    IF ~f.parses THEN Append(errs, Msg("csv_read_failed", 0, 0, {}))
    ELSE IF f.n < min THEN Append(errs, Msg("csv_too_few", f.n, min, {}))
    ELSE IF truthy(req) /\ req.names \ f.columns # {}
         THEN Append(errs, Msg("csv_missing_columns", 0, 0, req.names \ f.columns))
    ELSE errs
csv_checks(f, min, req, errs) ==
    IF ~f.parses THEN Append(errs, Msg("csv_read_failed", 0, 0, {}))
    ELSE (errs \o (IF f.n < min THEN <<Msg("csv_too_few", f.n, min, {})>> ELSE <<>>))
           \o (IF truthy(req) /\ req.names \ f.columns # {}
               THEN <<Msg("csv_missing_columns", 0, 0, req.names \ f.columns)>>
               ELSE <<>>)

\* errors = [] and warnings = []: a list of the call's own, whatever an
\* earlier call left
new_list_shared(old) == old
new_list(old) == <<>>

\* what validate_data_file and validate_collection_results come back with
Returned_no_warnings(errs, warns) ==
    [raised |-> "none", success |-> (Len(errs) = 0 /\ Len(warns) = 0),
     errors |-> errs, warnings |-> warns]
Returned(errs, warns) ==
    [raised |-> "none", success |-> (Len(errs) = 0), errors |-> errs, warnings |-> warns]
Escaped(exc) ==
    [raised |-> exc, success |-> FALSE, errors |-> <<>>, warnings |-> <<>>]

\* the try block's outcome for a check r of the geojson / json branch
after_check(r, errs, warns) ==
    IF r.exc = "none" THEN Returned(errs, warns \o r.warnings)
    ELSE IF r.exc = "ValidationError" THEN Returned(Append(errs, r.err), warns)
    ELSE Escaped(r.exc)

\* validate_data_file(file_path, data_type, min_records, required_fields),
\* errs and warns being its two new lists
validate_data_file(f, dt, min, req, errs, warns) ==
    CASE dt = "geojson" -> after_check(validate_geojson_file(f, min, req), errs, warns)
      [] dt = "json" -> after_check(validate_json_observations(f, min, req), errs, warns)
      [] dt = "csv" ->
            IF validate_file_exists(f).exc # "none"
            THEN after_check(validate_file_exists(f), errs, warns)
            ELSE Returned(csv_checks(f, min, req, errs), warns)
      [] OTHER -> Returned(Append(errs, Msg("unknown_data_type", 0, 0, {})), warns)

\* ---------------------------------------------- validate_collection_results
\* One entry of results["sources"]: its "status" ("absent" when the key is
\* not there), and for a collected source the file it lists and its count.
NoListedFile == [has_file |-> FALSE, file |-> NoFile]
ListedFiles == {NoListedFile} \cup
               {[has_file |-> TRUE, file |-> f] : f \in {NoFile, SmallFile, Present}}
NoCount == [has_count |-> FALSE, count |-> 0]
Counts == {NoCount} \cup {[has_count |-> TRUE, count |-> c] : c \in {0, 3}}
SourceStatuses == {"error", "no_data", "metadata_only", "skipped", "absent"}
SourceInfos ==
    {[status |-> st, listed |-> NoListedFile, counted |-> NoCount] : st \in SourceStatuses}
    \cup {[status |-> "success", listed |-> l, counted |-> c] :
              l \in ListedFiles, c \in Counts}

\* sequences over S of length at most n
RECURSIVE SeqsUpTo(_, _)
SeqsUpTo(S, n) ==
    IF n = 0 THEN {<<>>}
    ELSE LET shorter == SeqsUpTo(S, n - 1)
         IN shorter \cup {Append(q, x) : q \in {r \in shorter : Len(r) = n - 1}, x \in S}

\* the results dictionaries: without a "sources" key, or with the sources
\* in the order the dictionary iterates them
Reports ==
    {[given |-> TRUE, has_sources |-> FALSE, sources |-> <<>>]}
    \cup {[given |-> TRUE, has_sources |-> TRUE, sources |-> q] :
              q \in SeqsUpTo(SourceInfos, MaxSources)}

\* "file" in source_info, for a source with status "success"
file_is_checked_never(info) == FALSE
file_is_checked(info) == info.listed.has_file

\* the body of the loop for source i: the lists after it
check_source(i, info, acc) ==
    CASE info.status = "error" ->
            [acc EXCEPT !.errors = Append(@, Msg("source_error", i, 0, {}))]
      [] info.status = "no_data" ->
            [acc EXCEPT !.warnings = Append(@, Msg("source_no_data", i, 0, {}))]
      [] info.status = "success" ->
            LET checked == file_is_checked(info)
                             /\ validate_file_exists(info.listed.file).exc # "none"
                a1 == IF checked
                      THEN [acc EXCEPT !.errors =
                               Append(@, Msg("source_file", i, 0, {}))]
                      ELSE acc
            IN IF info.counted.has_count /\ info.counted.count = 0
               THEN [a1 EXCEPT !.warnings = Append(@, Msg("source_zero_records", i, 0, {}))]
               ELSE a1
      [] info.status = "metadata_only" -> acc
      [] OTHER ->
            [acc EXCEPT !.warnings = Append(@, Msg("source_unknown_status", i, 0, {}))]

RECURSIVE check_sources(_, _, _)
check_sources(sources, i, acc) ==
    IF i > Len(sources) THEN acc
    ELSE check_sources(sources, i + 1, check_source(i, sources[i], acc))

\* validate_collection_results(results), errs and warns being its new lists
validate_collection_results(r, errs, warns) ==
    IF ~r.has_sources
    THEN [raised |-> "none", success |-> FALSE,
          errors |-> Append(errs, Msg("missing_sources_key", 0, 0, {})),
          warnings |-> warns]
    ELSE LET acc == check_sources(r.sources, 1, [errors |-> errs, warnings |-> warns])
         IN Returned(acc.errors, acc.warnings)

\* the client's variables
cstate == <<now, config, last_request, op, pc, attempt, wake, result, fresh,
            ncalls, gap, nset, nreq, respAt, sinceResp, sleepDur, callLog, interrupted>>

\* a caller about to validate one file with one set of arguments; the client
\* is constructed and idle
InitV ==
    /\ \/ /\ data_type \in DataTypes
          /\ file \in FilesOf(data_type)
          /\ min_records \in 1..MaxMinRecords
          /\ required_fields \in Requireds
          /\ results = NoResults
       \/ /\ data_type = "none"
          /\ file = NoFile
          /\ min_records = 1
          /\ required_fields = NoFields
          /\ results \in Reports
    /\ success = FALSE
    /\ errors = <<>>
    /\ warnings = <<>>
    /\ raised = "none"
    /\ prev = NoOutcome
    /\ vcalls = 0
    /\ TasksIdle
    /\ StatusIdle
    /\ interrupted = FALSE
    /\ now = 0
    /\ rate_limit = 60
    /\ max_retries = DefaultMaxRetries
    /\ base_delay = DefaultBaseDelay
    /\ last_request = now
    /\ op = "none"
    /\ pc = "idle"
    /\ attempt = 0
    /\ wake = 0
    /\ result = "none"
    /\ fresh = TRUE
    /\ ncalls = 0
    /\ gap = -1
    /\ sinceResp = -1
    /\ nreq = 0
    /\ nset = 0
    /\ nresp = 0
    /\ respAt = -1
    /\ lastKind = "none"
    /\ lastStatus = 0
    /\ lastHeader = NoHeader
    /\ sleepDur = -1
    /\ n429 = 0
    /\ nfail = 0
    /\ only503 = TRUE

\* one call of validate_data_file on the file, by a caller that keeps the
\* triple it got; an exception that escapes leaves the caller without one
Validate ==
    /\ ~results.given
    /\ vcalls < MaxValidations
    /\ vcalls' = vcalls + 1
    /\ prev' = [raised |-> raised, success |-> success,
                errors |-> errors, warnings |-> warnings]
    /\ LET out == validate_data_file(file, data_type, min_records, required_fields,
                                     new_list(errors), new_list(warnings))
       IN /\ raised' = out.raised
          /\ success' = out.success
          /\ errors' = out.errors
          /\ warnings' = out.warnings
    /\ UNCHANGED <<vargs, results, cstate, tstate, sstate>>

\* one call of validate_collection_results on the report
ValidateCollection ==
    /\ results.given
    /\ vcalls < MaxValidations
    /\ vcalls' = vcalls + 1
    /\ prev' = [raised |-> raised, success |-> success,
                errors |-> errors, warnings |-> warnings]
    /\ LET out == validate_collection_results(results, new_list(errors),
                                              new_list(warnings))
       IN /\ raised' = out.raised
          /\ success' = out.success
          /\ errors' = out.errors
          /\ warnings' = out.warnings
    /\ UNCHANGED <<vargs, results, cstate, tstate, sstate>>

NextV ==
    \/ Validate
    \/ ValidateCollection

SpecV == InitV /\ [][NextV]_vars

\* =========================================================== status check
\* check_data_status.py: check_data_status() visits every entry of
\* DATA_FILES, validates the files that exist and fills the status dict; the
\* main block then decides the exit code from it. check_satellite_data_status
\* runs in between and only prints: nothing of it enters the decision.

\* the files a dataset's path can hold
GeoValid == [Parsed EXCEPT !.n = 1, !.crs = "EPSG:4326", !.columns = Fields]
StatusGeoFiles ==
    {NoFile, SmallFile, GeoValid, [GeoValid EXCEPT !.crs = "none"],
     [GeoValid EXCEPT !.n = 0]}
StatusJsonFiles ==
    {NoFile, Present, [Parsed EXCEPT !.top = "list", !.n = 1],
     [Parsed EXCEPT !.top = "dict", !.feat = "null"]}

\* the entries of DATA_FILES: geojson boundaries with required fields, json
\* observation files without, each critical or not
DatasetEntries ==
    {[critical |-> c, data_type |-> "geojson", min_records |-> 1,
      required_fields |-> [given |-> TRUE, names |-> {"first_nation"}],
      file |-> f] : c \in BOOLEAN, f \in StatusGeoFiles}
    \cup {[critical |-> c, data_type |-> "json", min_records |-> 1,
           required_fields |-> NoFields, file |-> f] :
              c \in BOOLEAN, f \in StatusJsonFiles}

\* validate_data_file on dataset d
validation_of(d) ==
    validate_data_file(d.file, d.data_type, d.min_records, d.required_fields,
                       <<>>, <<>>)

\* [f"{name}: {m}" for m in msgs]
RECURSIVE Prefixed(_, _)
Prefixed(name, msgs) ==
    IF msgs = <<>> THEN <<>>
    ELSE <<[name |-> name, msg |-> msgs[1]]>> \o Prefixed(name, Tail(msgs))

\* which of the three branches reports an available file
outcome_bucket_strict(ok, warns) ==
    IF ok /\ warns = <<>> THEN "valid" ELSE "invalid"
outcome_bucket(ok, warns) ==
    IF ok /\ warns = <<>> THEN "valid"
    ELSE IF ok /\ warns # <<>> THEN "warnings"
    ELSE "invalid"

\* the names before the colon of the validation errors
ErrorNames(st) == {st.validation_errors[j].name : j \in 1..Len(st.validation_errors)}

has_critical_errors_available_only(st) ==
    \E j \in 1..Len(st.available) :
        /\ st.available[j].critical
        /\ (~st.available[j].validation_success
                \/ st.available[j].name \in ErrorNames(st))
has_critical_errors(st) ==
    \/ \E j \in 1..Len(st.available) :
          /\ st.available[j].critical
          /\ (~st.available[j].validation_success
                  \/ st.available[j].name \in ErrorNames(st))
    \/ \E j \in 1..Len(st.missing) : st.missing[j].critical

has_any_errors_listed_only(st) == Len(st.validation_errors) > 0
has_any_errors(st) == Len(st.validation_errors) > 0 \/ Len(st.missing) > 0

\* the branch of the final if chain: the banner it prints and its sys.exit
Verdicts ==
    [CRITICAL_FAILURE |-> 1, DEGRADED |-> 2, OK_WITH_WARNINGS |-> 0, OK |-> 0]
verdict(st) ==
    IF has_critical_errors(st) THEN "CRITICAL_FAILURE"
    ELSE IF has_any_errors(st) THEN "DEGRADED"
    ELSE IF Len(st.validation_warnings) > 0 THEN "OK_WITH_WARNINGS"
    ELSE "OK"

\* a status check about to start on a repository
InitS ==
    /\ datasets \in SeqsUpTo(DatasetEntries, MaxDatasets)
    /\ datasets # <<>>
    /\ dsi = 0
    /\ status = NoStatus
    /\ exit_code = -1
    /\ banner = "none"
    /\ ValidatorIdle
    /\ TasksIdle
    /\ interrupted = FALSE
    /\ now = 0
    /\ rate_limit = 60
    /\ max_retries = DefaultMaxRetries
    /\ base_delay = DefaultBaseDelay
    /\ last_request = now
    /\ op = "none"
    /\ pc = "idle"
    /\ attempt = 0
    /\ wake = 0
    /\ result = "none"
    /\ fresh = TRUE
    /\ ncalls = 0
    /\ gap = -1
    /\ sinceResp = -1
    /\ nreq = 0
    /\ nset = 0
    /\ nresp = 0
    /\ respAt = -1
    /\ lastKind = "none"
    /\ lastStatus = 0
    /\ lastHeader = NoHeader
    /\ sleepDur = -1
    /\ n429 = 0
    /\ nfail = 0
    /\ only503 = TRUE

\* one pass of the inner loop body: the next dataset is looked at. An
\* exception out of validate_data_file is caught nowhere: the interpreter
\* prints the traceback and the process exits with code 1.
CheckDataset ==
    /\ exit_code = -1
    /\ dsi < Len(datasets)
    /\ dsi' = dsi + 1
    /\ LET name == dsi + 1
           d == datasets[name]
           out == validation_of(d)
       IN
       IF d.file.exists
       THEN IF out.raised # "none"
            THEN /\ exit_code' = 1
                 /\ banner' = "traceback"
                 /\ UNCHANGED status
            ELSE /\ status' =
                     LET st == [status EXCEPT !.available =
                                   Append(@, [name |-> name, critical |-> d.critical,
                                              validation_success |-> out.success])]
                         bucket == outcome_bucket(out.success, out.warnings)
                     IN IF bucket = "valid" THEN st
                        ELSE IF bucket = "warnings"
                        THEN [st EXCEPT !.validation_warnings =
                                            @ \o Prefixed(name, out.warnings)]
                        ELSE [st EXCEPT !.validation_errors =
                                            @ \o Prefixed(name, out.errors)]
                 /\ UNCHANGED <<exit_code, banner>>
       ELSE /\ status' =
                LET st == [status EXCEPT !.missing =
                              Append(@, [name |-> name, critical |-> d.critical])]
                IN IF d.critical
                   THEN [st EXCEPT !.validation_errors =
                           Append(@, [name |-> name,
                                      msg |-> Msg("missing_critical", 0, 0, {})])]
                   ELSE st
            /\ UNCHANGED <<exit_code, banner>>
    /\ UNCHANGED <<datasets, cstate, tstate, vstate>>

\* the main block after both checks: the exit-code decision
Decide ==
    /\ exit_code = -1
    /\ dsi = Len(datasets)
    /\ banner' = verdict(status)
    /\ exit_code' = Verdicts[verdict(status)]
    /\ UNCHANGED <<datasets, dsi, status, cstate, tstate, vstate>>

NextS ==
    \/ CheckDataset
    \/ Decide

SpecS == InitS /\ [][NextS]_vars

\* ------------------------------------------------------------------ claims

\* C1: one task, one client: any two consecutive returns of _rate_limit_wait,
\* each the instant at which its caller issues its HTTP request, are at least
\* 60 / rate_limit seconds apart.
C1_MinInterval == gap # -1 => gap >= min_interval
C1_Witness ==
    /\ op = "retry_request"
    /\ pc = "request"
    /\ nreq >= 2
    /\ gap = min_interval

\* C2: the first _rate_limit_wait on a freshly constructed client never
\* suspends.
C2_FirstCallNoSuspend == ~(fresh /\ pc = "rate_sleep")

\* C3: a _retry_request call whose every attempt is answered 503, and which
\* no interrupt aborts, ends with DataSourceError after exactly max_retries
\* requests.
C3_Exhaust503 ==
    (op = "retry_request" /\ pc = "done" /\ only503 /\ ~interrupted)
        => (result = "DataSourceError" /\ nreq = max_retries)
C3_Witness ==
    /\ op = "retry_request"
    /\ pc = "done"
    /\ only503
    /\ ~interrupted
    /\ max_retries = 3
    /\ nreq = 3
    /\ result = "DataSourceError"

\* C4: an attempt of _retry_request answered with any 2xx status ends the
\* call at once by returning the response.
C4_Any2xxReturns ==
    (op = "retry_request" /\ lastKind = "status" /\ lastStatus \in 200..299)
        => (pc = "done" /\ result = "returned")

\* C5: the attempt that follows a 429 is issued no sooner than Retry-After
\* seconds (60 when the header is absent) after the 429 came back.
C5_RetryAfterHonoured ==
    (op = "retry_request" /\ pc = "request"
        /\ lastKind = "status" /\ lastStatus = 429)
        => sinceResp >= (IF lastHeader.kind = "absent"
                         THEN DefaultRetryAfter ELSE lastHeader.secs)
C5_Witness ==
    /\ op = "retry_request"
    /\ pc = "request"
    /\ lastKind = "status"
    /\ lastStatus = 429
    /\ lastHeader.kind = "absent"
    /\ sinceResp = DefaultRetryAfter

\* C6 (as claimed): the backoff after a 5xx or network failure is
\* base_delay * 2^k, k the number of earlier non-429 failed attempts.
C6_BackoffSkips429 ==
    (op = "retry_request" /\ pc = "backoff_sleep")
        => sleepDur = base_delay * Pow2(nfail)

\* C6 (amended): the backoff after a 5xx or network failure is
\* base_delay * 2^k, k the number of all earlier attempts of the call, those
\* answered 429 included.
C6_BackoffCounts429 ==
    (op = "retry_request" /\ pc = "backoff_sleep")
        => sleepDur = base_delay * Pow2(nfail + n429)
C6_Witness ==
    /\ op = "retry_request"
    /\ pc = "backoff_sleep"
    /\ n429 = 1
    /\ nfail = 0
    /\ sleepDur = 2 * base_delay

C8_OnlyDataSourceError ==
    (op = "retry_request" /\ pc = "done" /\ ~interrupted)
        => result \in {"returned", "DataSourceError"}

\* C9: the sleep that follows a 5xx or a retried network failure at attempt i
\* is asked for base_delay * 2^i seconds and lasts at least that long.
C9_BackoffDelay ==
    (op = "retry_request" /\ pc = "backoff_sleep")
        => /\ sleepDur = base_delay * Pow2(attempt)
           /\ wake = respAt + sleepDur
C9_Witness ==
    /\ op = "retry_request"
    /\ pc = "backoff_sleep"
    /\ attempt = 2
    /\ sleepDur = 4 * base_delay

\* C11: once an interrupt is delivered to a running _retry_request call, the
\* call is over and its outcome is the interrupt itself: not DataSourceError,
\* and no further attempt or sleep.
C11_InterruptPropagates ==
    (op = "retry_request" /\ interrupted)
        => (pc = "done" /\ result \in {"KeyboardInterrupt", "CancelledError"})
C11_Witness ==
    /\ op = "retry_request"
    /\ interrupted
    /\ pc = "done"
    /\ result = "CancelledError"
    /\ attempt = 1
    /\ lastKind = "status"
    /\ lastStatus = 503

\* C10: a client call that fails on a 5xx response or a network error has
\* been retried: it issued max_retries requests before reporting failure.
C10_ClientCallRetries ==
    (op = "get_provincial_parks" /\ pc = "done" /\ result = "DataSourceError"
        /\ (lastKind = "client_error" \/ (lastKind = "status" /\ lastStatus >= 500)))
        => nreq = max_retries

\* ------------------------------------------------- claims on the validator
\* validate_data_file has returned or raised at least once
Validated == vcalls > 0
\* the file passes the pre-check
PreCheckPasses == file.exists /\ file.size >= MinSizeBytes
\* the errors / warnings list has an entry of the kind
HasError(kind) == \E i \in 1..Len(errors) : errors[i].kind = kind
HasWarning(kind) == \E i \in 1..Len(warnings) : warnings[i].kind = kind
\* a json file whose top-level value is a list or a dict and whose record
\* list, as the claims define it, is a list; and the length of that list
JsonRecordListIsList ==
    /\ data_type = "json"
    /\ PreCheckPasses
    /\ file.parses
    /\ \/ file.top = "list"
       \/ file.top = "dict" /\ file.obs = "list"
       \/ file.top = "dict" /\ file.obs = "absent" /\ file.feat \in {"list", "absent"}
JsonRecordCount ==
    IF file.top = "list" THEN file.n
    ELSE IF file.obs = "list" THEN file.n
    ELSE IF file.feat = "list" THEN file.m
    ELSE 1
\* the required fields record idx of that list lacks
JsonLacks(idx) ==
    IF file.top = "dict" /\ file.obs = "absent" /\ file.feat = "absent"
    THEN required_fields.names \ file.columns
    ELSE IF idx \in file.bad /\ file.badShape = "partial"
         THEN required_fields.names \ PartialKeys
         ELSE {}

\* C12: for geojson, json and csv, a file that does not exist or is smaller
\* than 100 bytes gives success = false, exactly one error, which is the
\* existence / size error, and no warnings.
C12_PrecheckShortCircuits ==
    (Validated /\ data_type \in {"geojson", "json", "csv"} /\ ~PreCheckPasses)
        => /\ raised = "none"
           /\ success = FALSE
           /\ Len(errors) = 1
           /\ errors[1].kind = (IF file.exists THEN "too_small" ELSE "missing")
           /\ warnings = <<>>
C12_Witness ==
    /\ Validated
    /\ data_type = "csv"
    /\ file.exists
    /\ file.size = MinSizeBytes - 1
    /\ file.parses
    /\ success = FALSE
    /\ Len(errors) = 1

\* C13: for a readable GeoJSON file, fewer features than min_records fails
\* with the error stating the count, and min_records features or more never
\* produce that error.
C13_GeoCountCheck ==
    (Validated /\ data_type = "geojson" /\ PreCheckPasses /\ file.parses)
        => /\ file.n < min_records
                => /\ success = FALSE
                   /\ errors = <<Msg("too_few_features", file.n, min_records, {})>>
           /\ file.n >= min_records => ~HasError("too_few_features")
C13_Witness ==
    /\ Validated
    /\ data_type = "geojson"
    /\ file.parses
    /\ min_records = 7
    /\ file.n = 6
    /\ success = FALSE
    /\ HasError("too_few_features")

\* C14: for a GeoJSON file that meets min_records, validation fails with the
\* missing-properties error exactly when some required field is not among the
\* file's properties, and the error names exactly those fields.
C14_GeoRequiredFields ==
    (Validated /\ data_type = "geojson" /\ PreCheckPasses /\ file.parses
        /\ file.n >= min_records)
        => LET absent == required_fields.names \ file.columns IN
           /\ (absent # {}) <=> (success = FALSE /\ HasError("missing_properties"))
           /\ absent # {} => errors = <<Msg("missing_properties", 0, 0, absent)>>
C14_Witness ==
    /\ Validated
    /\ data_type = "geojson"
    /\ file.parses
    /\ file.n >= min_records
    /\ file.columns = {"reserve_name"}
    /\ required_fields.names = {"first_nation", "reserve_name"}
    /\ success = FALSE
    /\ errors = <<Msg("missing_properties", 0, 0, {"first_nation"})>>

\* C15: for a GeoJSON file that passes the count and field checks and has
\* k >= 1 bad geometries among n features, validation fails, with the
\* too-many-invalid error, exactly when k is more than 10% of n; otherwise it
\* succeeds with the some-invalid warning.
C15_GeometryThreshold ==
    (Validated /\ data_type = "geojson" /\ PreCheckPasses /\ file.parses
        /\ file.n >= min_records /\ required_fields.names \ file.columns = {}
        /\ file.k >= 1)
        => /\ (10 * file.k > file.n) <=> (success = FALSE)
           /\ success = FALSE
                => errors = <<Msg("too_many_invalid", file.k, file.n, {})>>
           /\ success = TRUE
                => \E i \in 1..Len(warnings) :
                       warnings[i] = Msg("some_invalid", file.k, file.n, {})
C15_Witness ==
    /\ Validated
    /\ data_type = "geojson"
    /\ file.n = 20
    /\ file.k = 2
    /\ success = TRUE
    /\ HasWarning("some_invalid")

\* C16: for json the record list is the bare list, else the value of
\* "observations", else the value of "features", else the one-element list of
\* the dict; a call that returns fails exactly when that list has fewer than
\* min_records records, with the error stating its length.
C16_JsonRecordList ==
    (Validated /\ raised = "none" /\ JsonRecordListIsList)
        => /\ (success = FALSE) <=> (JsonRecordCount < min_records)
           /\ success = FALSE
                => errors = <<Msg("too_few_observations", JsonRecordCount,
                                  min_records, {})>>
C16_Witness ==
    /\ Validated
    /\ raised = "none"
    /\ data_type = "json"
    /\ file.top = "dict"
    /\ file.obs = "list"
    /\ file.feat = "list"
    /\ file.m < min_records
    /\ file.n >= min_records
    /\ success = TRUE

\* C17: for json, when the call returns and the record count is met, missing
\* required fields never make an error: success is true, and the warnings are
\* one per record of index < 10 that lacks a required field, naming what it
\* lacks; no record of index >= 10 is reported.
C17_JsonFieldsSampled ==
    (Validated /\ raised = "none" /\ JsonRecordListIsList
        /\ JsonRecordCount >= min_records)
        => /\ success = TRUE
           /\ errors = <<>>
           /\ \A i \in 1..Len(warnings) :
                /\ warnings[i].kind = "observation_missing_fields"
                /\ warnings[i].a < SampleSize
                /\ warnings[i].names = JsonLacks(warnings[i].a)
           /\ \A idx \in 0..(JsonRecordCount - 1) :
                (idx < SampleSize /\ JsonLacks(idx) # {})
                    => \E i \in 1..Len(warnings) : warnings[i].a = idx
C17_Witness ==
    /\ Validated
    /\ raised = "none"
    /\ data_type = "json"
    /\ file.top = "list"
    /\ file.n = 11
    /\ file.bad = {10}
    /\ file.badShape = "partial"
    /\ required_fields.names = {"first_nation", "reserve_name"}
    /\ success = TRUE
    /\ warnings = <<>>

\* C18: for a csv file that passes the pre-check and parses, validation fails
\* exactly when there are fewer rows than min_records or a required field is
\* not a column header, and each of the two adds its own error.
C18_CsvChecks ==
    (Validated /\ data_type = "csv" /\ PreCheckPasses /\ file.parses)
        => LET few == file.n < min_records
               absent == required_fields.names \ file.columns
           IN /\ raised = "none"
              /\ (success = FALSE) <=> (few \/ absent # {})
              /\ errors =
                    (IF few THEN <<Msg("csv_too_few", file.n, min_records, {})>>
                     ELSE <<>>)
                    \o (IF absent # {}
                        THEN <<Msg("csv_missing_columns", 0, 0, absent)>>
                        ELSE <<>>)
C18_Witness ==
    /\ Validated
    /\ data_type = "csv"
    /\ file.parses
    /\ PreCheckPasses
    /\ file.n < min_records
    /\ Len(errors) = 2
    /\ success = FALSE

\* C19: for every content of an existing file of at least 100 bytes,
\* validate_data_file returns a triple: no exception escapes it.
C19_NeverRaises ==
    (Validated /\ PreCheckPasses) => raised = "none"

\* C20: the second of two validations of the same unchanged file with the
\* same arguments comes back with what the first came back with.
C20_SameResultTwice ==
    vcalls >= 2 => prev = [raised |-> raised, success |-> success,
                           errors |-> errors, warnings |-> warnings]
C20_Witness ==
    /\ vcalls = 2
    /\ data_type = "geojson"
    /\ raised = "none"
    /\ success = TRUE
    /\ Len(warnings) = 2
    /\ prev.warnings = warnings

\* ------------------------------------------- further claims on the client
\* C25: one _retry_request call issues at most max_retries requests, 429
\* responses included, and a call in which no attempt succeeded and that was
\* not interrupted ends with DataSourceError.
C25_BoundedThenDataSourceError ==
    op = "retry_request"
        => /\ nreq <= max_retries
           /\ n429 + nfail <= max_retries
           /\ (pc = "done" /\ ~interrupted /\ result # "returned")
                => result = "DataSourceError"

\* C26: in _retry_request every attempt that has come back was preceded by
\* its own completed _rate_limit_wait, which set last_request once, to the
\* time the request was issued at.
C26_WaitBeforeEveryAttempt ==
    op = "retry_request"
        => /\ nset = nreq
           /\ nresp <= nset
           /\ nset <= nresp + 1
           /\ pc = "request" => (nset = nresp + 1 /\ last_request = now)
C26_Witness ==
    /\ op = "retry_request"
    /\ pc = "request"
    /\ nresp = 2
    /\ nset = 3
    /\ n429 = 1
    /\ nfail = 1
    /\ lastKind = "client_error"

\* C27: a call whose final allowed attempt has failed is not suspended in a
\* Retry-After or backoff sleep: it raises at once.
C27_NoSleepAfterFinalAttempt ==
    ~(/\ op = "retry_request"
      /\ pc \in {"retry_after_sleep", "backoff_sleep"}
      /\ ~interrupted
      /\ last_attempt(attempt))

\* C28: two tasks sharing one client: the latest returns of _rate_limit_wait
\* to the two tasks, each the instant the task issues its request, are at
\* least 60 / rate_limit seconds apart.
C28_ConcurrentMinInterval ==
    \A t, u \in Tasks :
        (t # u /\ issuedAt[t] # -1 /\ issuedAt[u] # -1)
            => \/ issuedAt[t] - issuedAt[u] >= min_interval
               \/ issuedAt[u] - issuedAt[t] >= min_interval

\* -------------------------------------------- claims on collection reports
\* the sources of the report that the claim gives an error to, and a warning
ErrorSources ==
    {i \in 1..Len(results.sources) :
        LET info == results.sources[i] IN
        \/ info.status = "error"
        \/ /\ info.status = "success"
           /\ info.listed.has_file
           /\ (~info.listed.file.exists \/ info.listed.file.size < MinSizeBytes)}
WarningSources ==
    {i \in 1..Len(results.sources) :
        LET info == results.sources[i] IN
        \/ info.status = "no_data"
        \/ info.status = "success" /\ info.counted.has_count /\ info.counted.count = 0
        \/ info.status \notin {"error", "no_data", "success", "metadata_only"}}
\* the sources the entries of a list of messages are about, in order
RECURSIVE SourcesOf(_)
SourcesOf(msgs) ==
    IF msgs = <<>> THEN <<>> ELSE <<msgs[1].a>> \o SourcesOf(Tail(msgs))
\* q lists each element of S once, in increasing order
ListsOnce(q, S) ==
    /\ Len(q) = Cardinality(S)
    /\ \A j \in 1..Len(q) : q[j] \in S
    /\ \A j \in 1..(Len(q) - 1) : q[j] < q[j + 1]

\* C29: every returned result, of validate_data_file and of
\* validate_collection_results, has success true exactly when its errors
\* list is empty, whatever its warnings.
C29_SuccessIffNoErrors ==
    (Validated /\ raised = "none") => (success = TRUE <=> errors = <<>>)
C29_Witness ==
    /\ Validated
    /\ results.given
    /\ results.has_sources
    /\ raised = "none"
    /\ success = TRUE
    /\ Len(warnings) = 2

\* C30: a report without "sources" gives (False, one error, no warnings);
\* otherwise the errors are one per source that has status "error" or has
\* status "success" and lists a file that is missing or under 100 bytes, and
\* the warnings one per source that has "no_data", a "success" count of 0 or
\* an unrecognised status; "metadata_only" adds nothing.
C30_CollectionResults ==
    (Validated /\ results.given)
        => IF ~results.has_sources
           THEN /\ success = FALSE
                /\ errors = <<Msg("missing_sources_key", 0, 0, {})>>
                /\ warnings = <<>>
           ELSE /\ ListsOnce(SourcesOf(errors), ErrorSources)
                /\ ListsOnce(SourcesOf(warnings), WarningSources)
C30_Witness ==
    /\ Validated
    /\ results.given
    /\ Len(results.sources) = 2
    /\ results.sources[1].status = "success"
    /\ results.sources[1].listed = [has_file |-> TRUE, file |-> SmallFile]
    /\ results.sources[1].counted = [has_count |-> TRUE, count |-> 0]
    /\ results.sources[2].status = "skipped"
    /\ SourcesOf(errors) = <<1>>
    /\ SourcesOf(warnings) = <<1, 2>>

\* ---------------------------------------------- claims on the status check
\* the status check has reached its exit-code decision
Decided == exit_code # -1 /\ banner # "traceback"
\* dataset i is missing; exists and fails validation; exists and is valid
\* with warnings
IsMissing(i) == ~datasets[i].file.exists
IsInvalid(i) == datasets[i].file.exists /\ ~validation_of(datasets[i]).success
HasWarnings(i) ==
    /\ datasets[i].file.exists
    /\ validation_of(datasets[i]).success
    /\ validation_of(datasets[i]).warnings # <<>>
AllDatasets == 1..Len(datasets)
CriticalFailures ==
    {i \in AllDatasets : datasets[i].critical /\ (IsMissing(i) \/ IsInvalid(i))}

C22_CriticalError ==
    Decided
        => /\ has_critical_errors(status) <=> CriticalFailures # {}
           /\ \A c \in AllDatasets :
                (/\ datasets[c].critical
                 /\ IsMissing(c)
                 /\ \A i \in AllDatasets \ {c} : ~IsMissing(i) /\ ~IsInvalid(i))
                    => /\ banner = "CRITICAL_FAILURE"
                       /\ status.validation_errors =
                            <<[name |-> c, msg |-> Msg("missing_critical", 0, 0, {})]>>
C22_Witness ==
    /\ Decided
    /\ Len(datasets) = 3
    /\ datasets[1].critical
    /\ IsMissing(1)
    /\ \A i \in {2, 3} : ~datasets[i].critical /\ ~IsMissing(i) /\ ~IsInvalid(i)
    /\ banner = "CRITICAL_FAILURE"
    /\ Len(status.validation_errors) = 1

\* C23: a dataset that is available and valid with warnings puts each of its
\* warnings in the warnings bucket and nothing in the errors; when every
\* dataset is available and valid and one has a warning the verdict is
\* OK_WITH_WARNINGS with no errors.
C23_WarningsBucket ==
    Decided
        => /\ \A i \in AllDatasets :
                HasWarnings(i)
                    => /\ i \notin ErrorNames(status)
                       /\ \A k \in 1..Len(validation_of(datasets[i]).warnings) :
                            \E j \in 1..Len(status.validation_warnings) :
                                status.validation_warnings[j] =
                                    [name |-> i,
                                     msg |-> validation_of(datasets[i]).warnings[k]]
           /\ (/\ \A i \in AllDatasets : ~IsMissing(i) /\ ~IsInvalid(i)
               /\ \E i \in AllDatasets : HasWarnings(i))
                => /\ banner = "OK_WITH_WARNINGS"
                   /\ exit_code = 0
                   /\ status.validation_errors = <<>>
C23_Witness ==
    /\ Decided
    /\ Len(datasets) = 3
    /\ \A i \in AllDatasets : ~IsMissing(i) /\ ~IsInvalid(i)
    /\ datasets[2].file.crs = "none"
    /\ datasets[2].data_type = "geojson"
    /\ ~HasWarnings(1)
    /\ ~HasWarnings(3)
    /\ banner = "OK_WITH_WARNINGS"
    /\ Len(status.validation_warnings) = 1
    /\ status.validation_errors = <<>>

\* C24: the exit code is 0 when every file is present and valid, 1 when a
\* file is missing or invalid, and 2 when the files exist but have
\* validation warnings.
C24_DocumentedExitCodes ==
    Decided
        => exit_code =
            (IF \E i \in AllDatasets : IsMissing(i) \/ IsInvalid(i) THEN 1
             ELSE IF \E i \in AllDatasets : HasWarnings(i) THEN 2
             ELSE 0)

====
